---- MODULE Spec2Model ----
(***************************************************************************)
(* Asset versioning of the marketing-image agent's tools                   *)
(* (src/tools/image_tools.py): the version ledger kept in the session      *)
(* state, the filename deriver, the asset resolver and the three           *)
(* orchestrators generate_image, edit_image and generate_video.            *)
(*                                                                         *)
(* Strings are sequences of one-character strings, so that formatting      *)
(* (f"{asset_name}_v{version}.{ext}") and parsing (split('_v')) are        *)
(* computed character by character.  An optional value (None or a value)   *)
(* is a sequence of length 0 or 1.                                         *)
(***************************************************************************)
EXTENDS Integers, Sequences, FiniteSets, TLC

VARIABLES
    state,      \* tool_context.state: the session state
    artifacts,  \* the artifact store: filename -> sequence of saved revisions
    last,       \* the most recent tool call: inputs, what it did, what it returned
    failedAlloc,\* observer: <<asset name, version>> allocated by the latest call
                \* whose save failed, until a call allocates for that name again
    script      \* observer: how far the launch end-to-end scenario has progressed

vars == <<state, artifacts, last, failedAlloc, script>>

(* Bounds *)
MaxSaves == 3

(***************************************************************************)
(* Strings                                                                 *)
(***************************************************************************)
None == <<>>
Some(x) == <<x>>

launch == <<"l","a","u","n","c","h">>
foo == <<"f","o","o">>
marketing_post == <<"m","a","r","k","e","t","i","n","g","_","p","o","s","t">>
latest == <<"l","a","t","e","s","t">>
png == <<"p","n","g">>
mp4 == <<"m","p","4">>
missing_png == <<"m","i","s","s","i","n","g",".","p","n","g">>
foo_v5_png == <<"f","o","o","_","v","5",".","p","n","g">>
randomfile_png == <<"r","a","n","d","o","m","f","i","l","e",".","p","n","g">>
promo_video == <<"p","r","o","m","o","_","v","i","d","e","o">>
promo_video_v1_mp4 == promo_video \o <<"_","v","1",".","m","p","4">>

DigitChars == <<"0","1","2","3","4","5","6","7","8","9">>

\* str(n) for an int n >= 0
RECURSIVE IntToStr(_)
IntToStr(n) ==
    IF n < 10 THEN <<DigitChars[n + 1]>>
    ELSE IntToStr(n \div 10) \o <<DigitChars[(n % 10) + 1]>>

\* sub occurs in s at position i
OccursAt(sub, s, i) ==
    /\ i + Len(sub) - 1 <= Len(s)
    /\ \A j \in 1..Len(sub) : s[i + j - 1] = sub[j]

\* sub in s
Contains(sub, s) == \E i \in 1..Len(s) : OccursAt(sub, s, i)

\* s.split(sub)[0]: the text before the first occurrence of sub (s itself if none)
SplitFirst(s, sub) ==
    IF Contains(sub, s)
    THEN LET i == CHOOSE k \in 1..Len(s) :
                    /\ OccursAt(sub, s, k)
                    /\ \A m \in 1..(k - 1) : ~OccursAt(sub, s, m)
         IN SubSeq(s, 1, i - 1)
    ELSE s

\* Python truthiness of an optional string: None and "" are falsy
Truthy(opt) == opt # None /\ opt[1] # <<>>

\* d.get(k, default) on a mapping modelled as a function
Get(d, k, default) == IF k \in DOMAIN d THEN d[k] ELSE default

\* d[k] = v on a mapping modelled as a function
Put(d, k, v) == [x \in (DOMAIN d) \cup {k} |-> IF x = k THEN v ELSE d[x]]

EmptyMap == [x \in {} |-> 0]

(***************************************************************************)
(* Session state and artifact store                                        *)
(***************************************************************************)
\* A session in which no tool has recorded anything.  The mappings
\* asset_versions / asset_filenames and the "<asset>_history" lists are created
\* on first use (update_asset_version); an absent mapping reads as an empty one
\* (state.get("asset_versions", {})), so absent and empty are one value here.
\* history[a] is the list stored under the state key a + "_history".
EmptyState ==
    [ asset_versions       |-> EmptyMap,
      asset_filenames      |-> EmptyMap,
      history              |-> EmptyMap,
      last_generated_image |-> None,
      last_generated_video |-> None,
      current_asset_name   |-> None ]

\* Artifacts the store may already hold when the session starts (uploaded,
\* or kept from earlier work); each has one revision.
Uploaded == {foo_v5_png, randomfile_png, promo_video_v1_mp4}
UploadedStore == [f \in Uploaded |-> <<"uploaded">>]

\* tool_context.save_artifact: the store appends a revision under the filename
\* and returns the revision number it assigned, the first revision of a
\* filename being number 0.
save_artifact_version(art, filename) == Len(Get(art, filename, <<>>))
save_artifact(art, filename, origin) ==
    Put(art, filename, Append(Get(art, filename, <<>>), origin))

\* tool_context.load_artifact: the latest revision, or None when the store has
\* no artifact of that name
load_artifact(art, filename) ==
    IF filename \in DOMAIN art THEN Some(art[filename][Len(art[filename])]) ELSE None

(***************************************************************************)
(* Version Ledger and Filename Deriver                                     *)
(***************************************************************************)
get_next_version_number(st, asset_name) ==
    LET current_version == Get(st.asset_versions, asset_name, 0)
    IN current_version + 1

update_asset_version(st, asset_name, version, filename) ==
    [st EXCEPT
        !.asset_versions  = Put(@, asset_name, version),
        !.asset_filenames = Put(@, asset_name, filename),
        !.history = Put(@, asset_name,
                        Append(Get(@, asset_name, <<>>),
                               [version |-> version, filename |-> filename]))]

create_versioned_filename(asset_name, version, file_extension) ==
    asset_name \o <<"_","v">> \o IntToStr(version) \o <<".">> \o file_extension

(***************************************************************************)
(* What a tool call returns or raises, and what it did                     *)
(***************************************************************************)
Return(text, filename, version, asset) ==
    [kind |-> "return", text |-> text, filename |-> filename,
     version |-> version, asset |-> asset]
Msg(text) == Return(text, None, -1, None)
Raise(what) ==
    [kind |-> "raise", text |-> what, filename |-> None, version |-> -1, asset |-> None]

\* The outcome of a handler body: the new session state and store, the value
\* returned or the exception raised, the external calls made, and the asset
\* name, version number and filename allocated (None / 0 when the call ended
\* before allocating).
Res(st, art, ret, calls, asset, version, filename, outcome) ==
    [state |-> st, artifacts |-> art, ret |-> ret, calls |-> calls,
     asset |-> asset, version |-> version, filename |-> filename,
     outcome |-> outcome]

\* except_Exception with the handler missing: the exception propagates
except_Exception_missing(r, text) == r

\* except Exception as e: return f"<text>: {e}"
except_Exception(r, text) ==
    IF r.ret.kind = "raise" THEN [r EXCEPT !.ret = Msg(text)] ELSE r

(***************************************************************************)
(* Request objects.  A field the caller leaves out is None; valid = FALSE  *)
(* stands for a parameter object the request class rejects (the            *)
(* constructor raises).                                                    *)
(***************************************************************************)
Inputs(valid, asset_name, artifact_filename, reference_image_filename) ==
    [valid |-> valid, asset_name |-> asset_name,
     artifact_filename |-> artifact_filename,
     reference_image_filename |-> reference_image_filename]

\* asset_name: str = Field(default="marketing_post")
GenerateImageInput(inputs) ==
    [inputs EXCEPT !.asset_name = IF @ = None THEN Some(marketing_post) ELSE @]

\* asset_name: str = Field(default=None)
EditImageInput(inputs) == inputs

\* asset_name: str = Field(default="marketing_post")
GenerateVideoInput(inputs) ==
    [inputs EXCEPT !.asset_name = IF @ = None THEN Some(marketing_post) ELSE @]

(***************************************************************************)
(* generate_image                                                          *)
(***************************************************************************)
\* generate_image_save with the record written before the save, so that a
\* failed save leaves the allocated version recorded.
generate_image_save_early(st, art, asset_name, artifact_filename, calls, save_raises) ==
    LET allocated == get_next_version_number(st, asset_name)
        st2 == update_asset_version(st, asset_name, allocated, artifact_filename)
        st3 == [st2 EXCEPT !.last_generated_image = Some(artifact_filename),
                           !.current_asset_name = Some(asset_name)]
    IN IF save_raises
       THEN Res(st3, art, Msg("Error saving generated image as artifact"),
                calls \cup {"save_artifact"}, Some(asset_name), allocated,
                Some(artifact_filename), "save_error")
       ELSE Res(st3, save_artifact(art, artifact_filename, "generate_image"),
                Return("Image generated successfully! Saved as artifact",
                       Some(artifact_filename), allocated, Some(asset_name)),
                calls \cup {"save_artifact"}, Some(asset_name), allocated,
                Some(artifact_filename), "saved")

\* The inner try of generate_image: save the image, then record it.
generate_image_save(st, art, asset_name, artifact_filename, calls, save_raises) ==
    IF save_raises
    THEN Res(st, art, Msg("Error saving generated image as artifact"),
             calls \cup {"save_artifact"}, Some(asset_name),
             get_next_version_number(st, asset_name), Some(artifact_filename),
             "save_error")
    ELSE LET version == save_artifact_version(art, artifact_filename)
             art2 == save_artifact(art, artifact_filename, "generate_image")
             st2 == update_asset_version(st, asset_name, version, artifact_filename)
             st3 == [st2 EXCEPT !.last_generated_image = Some(artifact_filename),
                                !.current_asset_name = Some(asset_name)]
         IN Res(st3, art2,
                Return("Image generated successfully! Saved as artifact",
                       Some(artifact_filename), version, Some(asset_name)),
                calls \cup {"save_artifact"}, Some(asset_name),
                get_next_version_number(st, asset_name), Some(artifact_filename),
                "saved")

\* The body of the outer try of generate_image.  sc names the external call
\* that fails, if any.
generate_image_try(st, art, raw, sc) ==
    IF ~raw.valid
    THEN Res(st, art, Raise("ValidationError"), {}, None, 0, None, "validation_error")
    ELSE IF sc = "rewrite_raises"
    THEN Res(st, art, Raise("generate_content"), {"rewrite"}, None, 0, None,
             "rewrite_error")
    ELSE
      LET inputs == GenerateImageInput(raw)
          asset_name == inputs.asset_name[1]
          version == get_next_version_number(st, asset_name)
          artifact_filename == create_versioned_filename(asset_name, version, png)
          calls == {"rewrite", "stream"}
      IN CASE sc = "stream_raises" ->
                Res(st, art, Raise("generate_content_stream"), calls,
                    Some(asset_name), version, Some(artifact_filename), "stream_error")
           [] sc = "no_image" ->
                Res(st, art, Msg("No image was generated"), calls,
                    Some(asset_name), version, Some(artifact_filename), "no_image")
           [] OTHER ->
                generate_image_save(st, art, asset_name, artifact_filename, calls,
                                    sc = "save_raises")

generate_image(st, art, raw, sc) ==
    except_Exception(generate_image_try(st, art, raw, sc),
                     "An error occurred while generating the image")

(***************************************************************************)
(* edit_image                                                              *)
(***************************************************************************)
\* Lines 212-222: the asset name an edit versions under.
resolve_asset_name(st, inputs) ==
    IF Truthy(inputs.asset_name)
    THEN inputs.asset_name[1]
    ELSE IF Truthy(st.current_asset_name)
    THEN st.current_asset_name[1]
    ELSE IF Contains(<<"_","v">>, inputs.artifact_filename[1])
    THEN SplitFirst(inputs.artifact_filename[1], <<"_","v">>)
    ELSE marketing_post

\* The inner try of edit_image: save the edited image, then record it.
edit_image_save(st, art, asset_name, edited_artifact_filename, calls, save_raises) ==
    IF save_raises
    THEN Res(st, art, Msg("Error saving edited image as artifact"),
             calls \cup {"save_artifact"}, Some(asset_name),
             get_next_version_number(st, asset_name), Some(edited_artifact_filename),
             "save_error")
    ELSE LET version == save_artifact_version(art, edited_artifact_filename)
             art2 == save_artifact(art, edited_artifact_filename, "edit_image")
             st2 == update_asset_version(st, asset_name, version,
                                         edited_artifact_filename)
             st3 == [st2 EXCEPT
                        !.last_generated_image = Some(edited_artifact_filename),
                        !.current_asset_name = Some(asset_name)]
         IN Res(st3, art2,
                Return("Image edited successfully! Saved as artifact",
                       Some(edited_artifact_filename), version, Some(asset_name)),
                calls \cup {"save_artifact"}, Some(asset_name),
                get_next_version_number(st, asset_name),
                Some(edited_artifact_filename), "saved")

edit_image_try(st, art, raw, sc) ==
    IF ~raw.valid
    THEN Res(st, art, Raise("ValidationError"), {}, None, 0, None, "validation_error")
    ELSE
      LET inputs == EditImageInput(raw) IN
      IF sc = "load_raises"
      THEN Res(st, art, Msg("Error loading image artifact"), {"load_artifact"},
               None, 0, None, "load_error")
      ELSE IF load_artifact(art, inputs.artifact_filename[1]) = None
      THEN Res(st, art, Msg("Could not find image artifact"), {"load_artifact"},
               None, 0, None, "not_found")
      ELSE
        LET asset_name == resolve_asset_name(st, inputs)
            version == get_next_version_number(st, asset_name)
            edited_artifact_filename ==
                create_versioned_filename(asset_name, version, png)
            calls == {"load_artifact", "stream"}
        IN CASE sc = "stream_raises" ->
                  Res(st, art, Raise("generate_content_stream"), calls,
                      Some(asset_name), version, Some(edited_artifact_filename),
                      "stream_error")
             [] sc = "no_image" ->
                  Res(st, art, Msg("No edited image was generated"), calls,
                      Some(asset_name), version, Some(edited_artifact_filename),
                      "no_image")
             [] OTHER ->
                  edit_image_save(st, art, asset_name, edited_artifact_filename,
                                  calls, sc = "save_raises")

edit_image(st, art, raw, sc) ==
    except_Exception(edit_image_try(st, art, raw, sc),
                     "An error occurred while editing the image")

(***************************************************************************)
(* generate_video                                                          *)
(***************************************************************************)
\* resolve_reference without the "latest" substitution
resolve_reference_literal(st, inputs) == inputs.reference_image_filename

\* Lines 288-291: the reference image, "latest" standing for the last image
\* the session generated.
resolve_reference(st, inputs) ==
    IF inputs.reference_image_filename = Some(latest)
    THEN st.last_generated_image
    ELSE inputs.reference_image_filename

\* video_asset_name_of without the "_video" suffix
video_asset_name_same(asset_name) == asset_name

\* Line 331
video_asset_name_of(asset_name) == asset_name \o <<"_","v","i","d","e","o">>

\* The try / except / finally around download, save and record.  sc.fail names
\* the step that raises; sc.polled: the job was not done when submitted, so the
\* loop polled it; sc.remove_raises: the temporary file is there and
\* os.remove raises in the finally block, which replaces the value being
\* returned by that exception.
generate_video_save(st, art, video_asset_name, artifact_filename, calls, sc) ==
    LET allocated == get_next_version_number(st, video_asset_name)
        tried ==
          IF sc.fail = "download_raises"
          THEN Res(st, art, Msg("Error saving generated video as artifact"),
                   calls \cup {"download"}, Some(video_asset_name), allocated,
                   Some(artifact_filename), "download_error")
          ELSE IF sc.fail = "save_raises"
          THEN Res(st, art, Msg("Error saving generated video as artifact"),
                   calls \cup {"download", "save_artifact"}, Some(video_asset_name),
                   allocated, Some(artifact_filename), "save_error")
          ELSE LET saved_version == save_artifact_version(art, artifact_filename)
                   art2 == save_artifact(art, artifact_filename, "generate_video")
                   st2 == update_asset_version(st, video_asset_name, saved_version,
                                               artifact_filename)
                   st3 == [st2 EXCEPT
                              !.last_generated_video = Some(artifact_filename),
                              !.current_asset_name = Some(video_asset_name)]
               IN Res(st3, art2,
                      Return("Video generated successfully! Saved as artifact",
                             Some(artifact_filename), saved_version,
                             Some(video_asset_name)),
                      calls \cup {"download", "save_artifact"},
                      Some(video_asset_name), allocated, Some(artifact_filename),
                      "saved")
    IN IF sc.remove_raises
       THEN [tried EXCEPT !.ret = Raise("os.remove"),
                          !.calls = @ \cup {"remove"}]
       ELSE tried

generate_video_try(st, art, raw, sc) ==
    IF ~raw.valid
    THEN Res(st, art, Raise("ValidationError"), {}, None, 0, None, "validation_error")
    ELSE
      LET inputs == GenerateVideoInput(raw)
          ref_filename == resolve_reference(st, inputs)
      IN
      IF ~Truthy(ref_filename)
      THEN Res(st, art, Msg("No reference image specified or found"), {},
               None, 0, None, "no_reference")
      ELSE IF sc.fail = "load_raises"
      THEN Res(st, art, Msg("Error loading reference image"), {"load_artifact"},
               None, 0, None, "load_error")
      ELSE IF load_artifact(art, ref_filename[1]) = None
      THEN Res(st, art, Msg("Could not load reference image"), {"load_artifact"},
               None, 0, None, "not_found")
      ELSE IF sc.fail = "rewrite_raises"
      THEN Res(st, art, Raise("generate_content"), {"load_artifact", "rewrite"},
               None, 0, None, "rewrite_error")
      ELSE
        LET video_asset_name == video_asset_name_of(inputs.asset_name[1])
            version == get_next_version_number(st, video_asset_name)
            artifact_filename ==
                create_versioned_filename(video_asset_name, version, mp4)
            submitted == {"load_artifact", "rewrite", "generate_videos"}
            polled == IF sc.polled THEN submitted \cup {"poll"} ELSE submitted
        IN CASE sc.fail = "submit_raises" ->
                  Res(st, art, Raise("generate_videos"), submitted,
                      Some(video_asset_name), version, Some(artifact_filename),
                      "submit_error")
             [] sc.fail = "poll_raises" ->
                  Res(st, art, Raise("operations.get"), polled,
                      Some(video_asset_name), version, Some(artifact_filename),
                      "poll_error")
             [] sc.fail = "no_videos" ->
                  Res(st, art,
                      Msg("Error occurred while generating video, or no videos were generated."),
                      polled, Some(video_asset_name), version,
                      Some(artifact_filename), "no_videos")
             [] OTHER ->
                  generate_video_save(st, art, video_asset_name, artifact_filename,
                                      polled, sc)

generate_video(st, art, raw, sc) ==
    except_Exception(generate_video_try(st, art, raw, sc),
                     "An error occurred while generating the video")

(***************************************************************************)
(* The session: one tool call at a time (the agent awaits each call)       *)
(***************************************************************************)
NoInputs == Inputs(FALSE, None, None, None)

RECURSIVE SumLen(_, _)
SumLen(h, K) ==
    IF K = {} THEN 0
    ELSE LET k == CHOOSE x \in K : TRUE IN Len(h[k]) + SumLen(h, K \ {k})

\* Number of versions the session has recorded so far
NumRecorded == SumLen(state.history, DOMAIN state.history)

\* Inputs and failure scenarios of the calls
ImageAssetNames == {Some(launch)}
EditAssetNames == {None, Some(launch)}
VideoAssetNames == {Some(launch)}
ImageScenarios == {"ok", "rewrite_raises", "stream_raises", "no_image", "save_raises"}
EditScenarios == {"ok", "load_raises", "stream_raises", "no_image", "save_raises"}
VideoScenarios ==
    { sc \in [fail : {"ok", "load_raises", "rewrite_raises", "submit_raises",
                      "poll_raises", "no_videos", "download_raises", "save_raises"},
              polled : BOOLEAN,
              remove_raises : BOOLEAN] :
        /\ sc.fail = "poll_raises" => sc.polled
        /\ sc.fail \in {"load_raises", "rewrite_raises", "submit_raises"} => ~sc.polled
        /\ sc.remove_raises => sc.fail \in {"ok", "download_raises", "save_raises"} }
OkVideo == [fail |-> "ok", polled |-> FALSE, remove_raises |-> FALSE]

\* The artifact names an edit is asked for: an uploaded file, the image the
\* session made last, or a file the store does not have
EditFiles ==
    ((Uploaded \cap DOMAIN artifacts) \cup {missing_png})
        \cup {state.last_generated_image[i] : i \in DOMAIN state.last_generated_image}
VideoReferences == {latest, missing_png}

Init ==
    /\ state = EmptyState
    /\ artifacts \in {EmptyMap, UploadedStore}
    /\ last = [op |-> "none", inputs |-> NoInputs, asset |-> None, version |-> 0,
               filename |-> None, outcome |-> "none", ret |-> Msg("none"),
               calls |-> {}, after_failed |-> None]
    /\ failedAlloc = None
    /\ script = IF artifacts = EmptyMap THEN 0 ELSE -1

\* The launch scenario: generate_image for "launch", edit_image of the artifact
\* just returned with no asset_name, generate_video with reference "latest" and
\* asset "launch", each with every external call succeeding, from an empty
\* session.  -1: the session has left the scenario.
NextScript(op, raw, r) ==
    LET ok == r.outcome = "saved" /\ r.ret.kind = "return" /\ r.ret.filename # None
    IN CASE script = 0 /\ op = "generate_image" /\ ok
               /\ raw.asset_name = Some(launch) -> 1
         [] script = 1 /\ op = "edit_image" /\ ok
               /\ raw.asset_name = None
               /\ raw.artifact_filename = last.ret.filename -> 2
         [] script = 2 /\ op = "generate_video" /\ ok
               /\ raw.asset_name = Some(launch)
               /\ raw.reference_image_filename = Some(latest) -> 3
         [] OTHER -> -1

\* The call's effects, and what the observers note of it
Finish(op, raw, r) ==
    /\ state' = r.state
    /\ artifacts' = r.artifacts
    /\ last' = [op |-> op, inputs |-> raw, asset |-> r.asset, version |-> r.version,
                filename |-> r.filename, outcome |-> r.outcome, ret |-> r.ret,
                calls |-> r.calls,
                \* the failed save this call comes after, when it allocates for
                \* the same asset name
                after_failed |->
                    IF r.asset # None /\ failedAlloc # None
                          /\ failedAlloc[1][1] = r.asset[1]
                    THEN failedAlloc ELSE None]
    /\ failedAlloc' =
          CASE r.outcome = "save_error" -> Some(<<r.asset[1], r.version>>)
            [] r.asset # None /\ failedAlloc # None /\ failedAlloc[1][1] = r.asset[1] -> None
            [] OTHER -> failedAlloc
    /\ script' = NextScript(op, raw, r)

GenerateImage ==
    /\ NumRecorded < MaxSaves
    /\ \E raw \in {NoInputs} \cup {Inputs(TRUE, a, None, None) : a \in ImageAssetNames},
          sc \in ImageScenarios :
          /\ ~raw.valid => sc = "ok"
          /\ Finish("generate_image", raw, generate_image(state, artifacts, raw, sc))

EditImage ==
    /\ NumRecorded < MaxSaves
    /\ \E raw \in {NoInputs} \cup
                  {Inputs(TRUE, a, Some(f), None) :
                      a \in EditAssetNames, f \in EditFiles},
          sc \in EditScenarios :
          /\ ~raw.valid => sc = "ok"
          /\ Finish("edit_image", raw, edit_image(state, artifacts, raw, sc))

GenerateVideo ==
    /\ NumRecorded < MaxSaves
    /\ \E raw \in {NoInputs} \cup
                  {Inputs(TRUE, a, None, Some(f)) :
                      a \in VideoAssetNames, f \in VideoReferences},
          sc \in VideoScenarios :
          /\ ~raw.valid => sc = OkVideo
          /\ Finish("generate_video", raw, generate_video(state, artifacts, raw, sc))

Next == GenerateImage \/ EditImage \/ GenerateVideo

Spec == Init /\ [][Next]_vars

(***************************************************************************)
(* Properties                                                              *)
(***************************************************************************)
\* Every revision of every artifact recorded for asset name a was saved by
\* generate_image: no other tool has recorded a version for a.  (A filename
\* a_v<n>.png is derived from a alone, so the tools that wrote the files of
\* a's history are the tools that recorded under a.)
OnlyGenerateImage(a) ==
    \A i \in DOMAIN state.history[a] :
        LET f == state.history[a][i].filename
        IN \A j \in DOMAIN artifacts[f] : artifacts[f][j] = "generate_image"

\* The store held nothing when the session started
FreshStore == Uploaded \cap DOMAIN artifacts = {}

\* s is a prefix of t
IsPrefix(s, t) == Len(s) <= Len(t) /\ SubSeq(t, 1, Len(s)) = s

\* C1: in a session started empty, after N successful generate_image calls
\* for asset name a, and no other call recording for a, the history of a is
\* (1, a_v1.png), ..., (N, a_vN.png) and asset_versions[a] = N.
ClaimGenerateSequence ==
    \A a \in DOMAIN state.history :
        (FreshStore /\ OnlyGenerateImage(a)) =>
            /\ state.history[a] =
                  [i \in 1..Len(state.history[a]) |->
                      [version |-> i,
                       filename |-> create_versioned_filename(a, i, png)]]
            /\ state.asset_versions[a] = Len(state.history[a])

\* C2: asset_versions[a] never decreases from one state to the next, and a
\* successful call that records a version for a strictly increases it (an
\* asset name with no version yet counts as below every version).
ClaimVersionsMonotonic ==
    [][\A a \in DOMAIN state'.asset_versions :
          /\ state'.asset_versions[a] >= Get(state.asset_versions, a, -1)
          /\ (last'.outcome = "saved" /\ last'.asset = Some(a))
                => state'.asset_versions[a] > Get(state.asset_versions, a, -1)]_vars

\* C3: a history is only ever extended at its end, and its length equals
\* asset_versions[a].
ClaimHistoryAppendOnly ==
    [][\A a \in DOMAIN state'.history :
          /\ IsPrefix(Get(state.history, a, <<>>), state'.history[a])
          /\ Len(state'.history[a]) = state'.asset_versions[a]]_vars

\* C4: every artifact filename is written by at most one successful call of
\* the session.
ClaimFilenameWrittenOnce ==
    \A f \in DOMAIN artifacts :
        Cardinality({i \in DOMAIN artifacts[f] : artifacts[f][i] # "uploaded"}) <= 1

\* C5 as stated: the version allocated to a call whose save failed is spent,
\* so the next call for the same asset name is allocated a strictly higher one.
ClaimFailedSaveSpendsVersion ==
    (last.after_failed # None /\ last.version # 0)
        => last.version > last.after_failed[1][2]

\* C5 amended: the version is allocated before the save (the saved filename
\* carries it), and a failed save records nothing, so the next call for the
\* same asset name is allocated the same version number again.
FailedSaveKeepsVersion ==
    /\ (last.after_failed # None /\ last.version # 0)
          => last.version = last.after_failed[1][2]
    /\ (last.outcome \in {"saved", "save_error"})
          => \E ext \in {png, mp4} :
                last.filename =
                    Some(create_versioned_filename(last.asset[1], last.version, ext))

\* C5 witness: a call that allocated right after a failed save for the same
\* asset name
WitnessRetryAfterFailedSave ==
    /\ last.after_failed # None
    /\ last.version # 0
    /\ last.outcome = "saved"

(* C6: the asset name an edit resolves to *)
IsDigit(c) == \E i \in DOMAIN DigitChars : DigitChars[i] = c

\* s has the suffix _v<digits>, or _v<digits>.<extension>, starting at i
VersionSuffixAt(s, i) ==
    /\ OccursAt(<<"_","v">>, s, i)
    /\ \E j \in (i + 2)..Len(s) :
          /\ \A k \in (i + 2)..j : IsDigit(s[k])
          /\ \/ j = Len(s)
             \/ /\ s[j + 1] = "."
                /\ \A k \in (j + 2)..Len(s) : s[k] \notin {".", "_"}

HasVersionSuffix(s) == \E i \in 1..Len(s) : VersionSuffixAt(s, i)

\* s with that suffix stripped
StripVersionSuffix(s) ==
    SubSeq(s, 1, (CHOOSE i \in 1..Len(s) : VersionSuffixAt(s, i)) - 1)

\* The precedence the claim states
ClaimedAssetName(inputs, current_asset_name) ==
    IF inputs.asset_name # None THEN inputs.asset_name[1]
    ELSE IF current_asset_name # None THEN current_asset_name[1]
    ELSE IF HasVersionSuffix(inputs.artifact_filename[1])
    THEN StripVersionSuffix(inputs.artifact_filename[1])
    ELSE marketing_post

\* C6: edit_image versions under the supplied asset_name, else under
\* current_asset_name, else under the artifact filename with its _v<digits>
\* suffix stripped, else under "marketing_post"; for every artifact filename.
ClaimResolvePrecedence ==
    [][(last'.op = "edit_image" /\ last'.asset # None)
          => last'.asset[1] =
                ClaimedAssetName(last'.inputs, state.current_asset_name)]_vars

(* C7: the launch scenario *)
launch_v1_png == create_versioned_filename(launch, 1, png)
launch_v2_png == create_versioned_filename(launch, 2, png)
video_v1_mp4 == <<"_","v","i","d","e","o","_","v","1",".","m","p","4">>

EndsWith(s, suffix) ==
    /\ Len(suffix) <= Len(s)
    /\ SubSeq(s, Len(s) - Len(suffix) + 1, Len(s)) = suffix

\* C7: from an empty session with every external call succeeding,
\* generate_image for "launch" returns launch_v1.png as version 1, the edit of
\* that artifact with no asset_name returns launch_v2.png as version 2, and
\* generate_video with reference "latest" saves a file ending in _video_v1.mp4.
ClaimLaunchScenario ==
    /\ script = 1 =>
          last.ret.filename = Some(launch_v1_png) /\ last.ret.version = 1
    /\ script = 2 =>
          last.ret.filename = Some(launch_v2_png) /\ last.ret.version = 2
    /\ script = 3 => EndsWith(last.ret.filename[1], video_v1_mp4)

\* C8: generate_video with reference "latest" while last_generated_image is
\* not set returns the "no reference image" message, having made no external
\* call.
NoReferenceNoCalls ==
    [][(/\ last'.op = "generate_video"
        /\ last'.inputs.reference_image_filename = Some(latest)
        /\ state.last_generated_image = None)
          => /\ last'.ret = Msg("No reference image specified or found")
             /\ last'.calls = {}
             /\ state' = state /\ artifacts' = artifacts]_vars

\* C8 witness: such a call has returned
WitnessNoReference ==
    /\ last.op = "generate_video"
    /\ last.inputs.reference_image_filename = Some(latest)
    /\ state.last_generated_image = None
    /\ last.outcome = "no_reference"

\* C9: every call that finishes returns a string, whichever external call
\* raised.
AlwaysReturnsString == last.ret.kind = "return"

\* C9 witness: calls in which an external call outside the inner try blocks
\* raised, and os.remove raised in the finally block
WitnessRaisedAndReturned ==
    /\ last.op = "generate_video"
    /\ last.outcome = "saved"
    /\ "remove" \in last.calls
    /\ last.ret = Msg("An error occurred while generating the video")

\* The ledger's entries for asset name k
Entry(st, k) ==
    <<Get(st.asset_versions, k, -1), Get(st.asset_filenames, k, <<>>),
      Get(st.history, k, <<>>)>>
Keys(st) == (DOMAIN st.asset_versions \cup DOMAIN st.asset_filenames)
                \cup DOMAIN st.history

\* C10: generate_video for asset name X changes only the ledger entries of
\* X_video: the entries of X (and of every other name) and
\* last_generated_image stay as they are; generate_image for X leaves the
\* entries of X_video as they are.
VideoNamespaceSeparate ==
    [][/\ (last'.op = "generate_video" /\ last'.inputs.valid) =>
            LET X == GenerateVideoInput(last'.inputs).asset_name[1]
            IN /\ Entry(state', X) = Entry(state, X)
               /\ state'.last_generated_image = state.last_generated_image
               /\ \A k \in Keys(state) \cup Keys(state') :
                     k # X \o <<"_","v","i","d","e","o">>
                        => Entry(state', k) = Entry(state, k)
       /\ (last'.op = "generate_image" /\ last'.inputs.valid) =>
            LET X == GenerateImageInput(last'.inputs).asset_name[1]
            IN Entry(state', X \o <<"_","v","i","d","e","o">>)
                  = Entry(state, X \o <<"_","v","i","d","e","o">>)]_vars

\* C10 witness: a video was recorded for "launch" in a session that holds
\* image versions of "launch"
WitnessVideoBesideImage ==
    /\ last.op = "generate_video"
    /\ last.outcome = "saved"
    /\ last.inputs.asset_name = Some(launch)
    /\ launch \in DOMAIN state.asset_versions
    /\ launch \o <<"_","v","i","d","e","o">> \in DOMAIN state.asset_versions

\* The call returned one of the three success messages
Succeeded(ret) ==
    ret.text \in {"Image generated successfully! Saved as artifact",
                  "Image edited successfully! Saved as artifact",
                  "Video generated successfully! Saved as artifact"}

\* C11: after a successful generate_video for asset name X, current_asset_name
\* is X_video, and an edit_image call with no asset_name that follows at once
\* allocates from the counter of X_video, names its file X_video_v<k>.png and,
\* when it succeeds, advances the version and the history of X_video and
\* leaves the entries of X as they are.
ClaimEditAfterVideo ==
    [][(/\ last.op = "generate_video" /\ Succeeded(last.ret)
        /\ last'.op = "edit_image" /\ last'.inputs.valid
        /\ last'.inputs.asset_name = None)
          => LET X == GenerateVideoInput(last.inputs).asset_name[1]
                 V == X \o <<"_","v","i","d","e","o">>
             IN /\ state.current_asset_name = Some(V)
                /\ last'.asset # None =>
                      /\ last'.asset = Some(V)
                      /\ last'.version = Get(state.asset_versions, V, 0) + 1
                      /\ last'.filename =
                            Some(create_versioned_filename(V, last'.version, png))
                /\ Succeeded(last'.ret) =>
                      /\ state'.asset_versions[V] > state.asset_versions[V]
                      /\ Len(state'.history[V]) = Len(state.history[V]) + 1
                      /\ state'.history[V][Len(state'.history[V])].filename
                            = last'.filename[1]
                      /\ Entry(state', X) = Entry(state, X)]_vars

\* C12: a call that ends in anything but a success message leaves the whole
\* session state as it was, and the session state changes only in a call whose
\* artifact save returned.
ClaimFailureLeavesState ==
    [][/\ (last'.op # "none" /\ ~Succeeded(last'.ret)) => state' = state
       /\ state' # state =>
             "save_artifact" \in last'.calls /\ last'.outcome = "saved"]_vars

====
